---- MODULE Spec2Model ----
(***************************************************************************)
(* A model of the rpi_bt credential sharers (Joshua-Sandat/rpi_bt):        *)
(*   android_wifi_direct_sharer.py  class AndroidWiFiDirectSharer          *)
(*   wifi_direct_sharer.py          class WiFiDirectSharer                 *)
(* Each program is a single GLib dispatch loop whose D-Bus handlers run to *)
(* completion; the acquisition session runs inside the connect handler as  *)
(* a sequence of blocking external commands.                               *)
(*                                                                         *)
(* Text is modelled as a sequence of lines, a line as a sequence of        *)
(* tokens. A token stands for an indivisible fragment of characters; the   *)
(* separator "=" and the blank " " are tokens of their own.                *)
(***************************************************************************)
EXTENDS Integers, Sequences, FiniteSets, TLC

VARIABLES
    program,              \* which sharer class is running
    queue,                \* D-Bus notifications waiting for the dispatch loop
    emitted,              \* number of notifications the radio stack has sent
    connected_devices,    \* self.connected_devices
    handled,              \* the notification the dispatch loop handed to a handler last
    pc,                   \* position of the dispatch loop / of the session in the handler
    elapsed,              \* time.time() - start_time of the running session
    discovered_devices,   \* discovered_devices of the running session
    dev_idx,              \* index of the device the connect loop is at
    poll_i,               \* status polls made for the current connect request
    cand,                 \* (ssid, password) being applied
    config_file,          \* the content of /etc/wifi_credentials.json
    credentials_received, \* self.credentials_received
    session_path,         \* the object path whose add notification opened the session
    session_result,       \* return value of the session entry point
    call_log,             \* the strategy-level calls of the running session, in order
    connect_log,          \* the addresses p2p_connect was issued for, in order
    persist_count,        \* writes of config_file in the running session
    apply_log,            \* the credentials handed to the network connector
    status_text,          \* the status text the last step handed to the credential parser
    disc_during,          \* a remove notification for session_path arrived mid-session
    sessions_started,     \* sessions opened so far
    last_cmd,             \* the external command the last step ran last, and how it ended
    last_output,          \* what that command printed, where the session reads it
    wifi_service,         \* wifi_ssid and wifi_password of the WiFiCredentialService
    setup_state,          \* how far run() has got with its setup steps
    run_result,           \* what run() returned, "running" while it has not
    raw_text,             \* argument of the last parser call
    last_call,            \* which parser was called last
    ret_info,             \* network_info built by the last status parse
    ret_devices           \* devices returned by the last peer-list parse

monitorVars == <<queue, emitted, connected_devices, handled>>
sessionVars == <<pc, elapsed, discovered_devices, dev_idx, poll_i, cand,
                 session_path, session_result, call_log, connect_log,
                 persist_count, apply_log, status_text, disc_during,
                 sessions_started, last_cmd, last_output>>
storeVars   == <<config_file, credentials_received>>
gattVars    == <<wifi_service>>
runVars     == <<setup_state, run_result>>
parseVars   == <<raw_text, last_call, ret_info, ret_devices>>
vars == <<program, monitorVars, sessionVars, storeVars, gattVars, runVars, parseVars>>

(***************************************************************************)
(* Bounds of the model.                                                    *)
(***************************************************************************)
MaxLines     == 3   \* lines of a status text handed to the parser
MaxPeerLines == 3   \* lines of a peer-list text handed to the parser
MaxEvents    == 2   \* notifications the radio stack sends in one run
MaxPeers     == 2   \* devices in one p2p_peers listing
SlowCommand  == 40  \* seconds a command without a timeout may take
MaxChecks    == 2   \* turns of the monitor_credentials loop that are followed

(***************************************************************************)
(* Program constants.                                                      *)
(***************************************************************************)
timeout_seconds == 90   \* total timeout of one Android session
FindTimeout     == 10   \* subprocess timeout of p2p_find
DiscoveryWait   == 15   \* sleep after p2p_find (Android)
PollLimit       == 45   \* range(45) status polls per connect request
PollInterval    == 1    \* sleep(1) before each poll
ApplyWait       == 10   \* sleep before check_wifi_connection
ServiceWait     == 10   \* sleep after p2p_serv_disc_req
GroupWait       == 15   \* sleep after p2p_group_add

(***************************************************************************)
(* Strings.                                                                *)
(***************************************************************************)
Unknown == <<"Unknown">>          \* the sentinel 'Unknown'
NoText  == <<>>                   \* the empty string ''

Min(S) == CHOOSE x \in S : \A y \in S : x <= y
Max(S) == CHOOSE x \in S : \A y \in S : x >= y

\* str.strip(): the string without its leading and trailing blanks
strip(s) ==
    LET solid == {j \in 1..Len(s) : s[j] # " "}
    IN  IF solid = {} THEN NoText ELSE SubSeq(s, Min(solid), Max(solid))

\* '=' in line
has_separator(line) == \E j \in 1..Len(line) : line[j] = "="

\* line.split('=', 1): the parts before and after the first '='
split_first(line) ==
    LET j == Min({k \in 1..Len(line) : line[k] = "="})
    IN  <<SubSeq(line, 1, j - 1), SubSeq(line, j + 1, Len(line))>>

\* line.startswith(prefix + '=')
startswith(line, prefix) ==
    Len(line) >= 2 /\ line[1] = prefix /\ line[2] = "="

\* an assignment that keeps the value a key already has
dict_keep_first(d, k, v) ==
    [x \in (DOMAIN d) \cup {k} |-> IF x \in DOMAIN d THEN d[x] ELSE v]

\* d[k] = v on a dict
dict_put(d, k, v) == [x \in (DOMAIN d) \cup {k} |-> IF x = k THEN v ELSE d[x]]
\* d.get(k, default)
dict_get(d, k, default) == IF k \in DOMAIN d THEN d[k] ELSE default
EmptyDict == [x \in {} |-> NoText]

(***************************************************************************)
(* extract_android_network_credentials / extract_network_credentials:      *)
(* the key=value loop that builds network_info.                            *)
(***************************************************************************)
RECURSIVE network_info_of(_, _)
network_info_of(lines, n) ==
    IF n = 0 THEN EmptyDict
    ELSE LET d    == network_info_of(lines, n - 1)
             line == lines[n]
         IN  IF has_separator(line)
             THEN dict_put(d, strip(split_first(line)[1]), strip(split_first(line)[2]))
             ELSE d

parse_network_info(status) == network_info_of(status, Len(status))

(***************************************************************************)
(* parse_android_devices.                                                  *)
(***************************************************************************)
blank(line) == strip(line) = NoText

\* peers_output.strip().split('\n'): leading and trailing blank lines go,
\* and the text '' splits into the one line ''
strip_lines(text) ==
    LET solid == {j \in 1..Len(text) : ~blank(text[j])}
    IN  IF solid = {} THEN <<NoText>> ELSE SubSeq(text, Min(solid), Max(solid))

AttributeKey(line) ==
    IF      startswith(line, "dev_name")      THEN "name"
    ELSE IF startswith(line, "p2p_dev_addr")  THEN "p2p_address"
    ELSE IF startswith(line, "p2p_go_intent") THEN "go_intent"
    ELSE IF startswith(line, "p2p_dev_capab") THEN "capabilities"
    ELSE "none"

\* if current_device and 'address' in current_device: devices.append(current_device)
flush_device(devices, current_device) ==
    IF DOMAIN current_device # {} /\ "address" \in DOMAIN current_device
    THEN Append(devices, current_device)
    ELSE devices

\* one iteration of the for loop over the lines
device_line(st, raw_line) ==
    LET line == strip(raw_line)
    IN  IF startswith(line, "dev_addr")
        THEN [devices |-> flush_device(st.devices, st.current_device),
              current_device |-> dict_put(EmptyDict, "address", split_first(line)[2])]
        ELSE IF AttributeKey(line) # "none"
        THEN [st EXCEPT !.current_device =
                 dict_put(st.current_device, AttributeKey(line), split_first(line)[2])]
        ELSE st

RECURSIVE device_loop(_, _)
device_loop(lines, n) ==
    IF n = 0 THEN [devices |-> <<>>, current_device |-> EmptyDict]
    ELSE device_line(device_loop(lines, n - 1), lines[n])

\* the parser without the append after the loop
parse_without_last_device(peers_output) ==
    LET lines == strip_lines(peers_output)
    IN  device_loop(lines, Len(lines)).devices

parse_android_devices(peers_output) ==
    LET lines == strip_lines(peers_output)
        st    == device_loop(lines, Len(lines))
    IN  flush_device(st.devices, st.current_device)

(***************************************************************************)
(* Inputs of the parsers.                                                  *)
(***************************************************************************)
StatusLines ==
    { <<"ssid", "=", "HomeNet">>,
      <<"ssid", "=", "Unknown">>,
      <<"ssid", "=">>,
      <<"psk", "=", "s3cr3t">>,
      <<" ", "psk", " ", "=", " ", "Unknown", " ">>,
      <<"psk", "=", "a", "=", "b">>,
      <<"wpa_state">>,
      <<"=", "x">>,
      <<>> }

PeerLines ==
    { <<"dev_addr", "=", "A">>,
      <<" ", "dev_addr", "=", "B", " ">>,
      <<"dev_addr", "=">>,
      <<"dev_name", "=", "Pixel">>,
      <<"dev_name", "=", "Nexus">>,
      <<"p2p_dev_addr", "=", "A">>,
      <<"dev_addr">>,
      <<>> }

TextsOver(L, n) == UNION {[1..k -> L] : k \in 0..n}

StatusInputs == TextsOver(StatusLines, MaxLines)
PeerInputs   == TextsOver(PeerLines, MaxPeerLines)

(***************************************************************************)
(* The environment: D-Bus notifications and the outputs of the commands.   *)
(***************************************************************************)
Paths == {"/dev_1", "/dev_2"}

\* InterfacesAdded(path, interfaces) / InterfacesRemoved(path, interfaces);
\* device says whether "org.bluez.Device1" is among the interfaces: it is for
\* the device paths, it is not for the adapter's path
Notifications ==
    [kind : {"InterfacesAdded"}, path : Paths, device : {TRUE}]
    \cup [kind : {"InterfacesAdded"}, path : {"/hci0"}, device : {FALSE}]
    \cup [kind : {"InterfacesRemoved"}, path : Paths, device : {FALSE}]

CmdOutcome == {"ok", "error"}      \* exit status 0 / CalledProcessError
FindTimes    == {FindTimeout}      \* p2p_find returns within its timeout, here at its end
CommandTimes == {0, SlowCommand}   \* p2p_peers has no timeout

AddressPool == <<"A", "B", "C", "D">>

\* stdout of p2p_peers listing n devices
device_listing(n) ==
    [k \in 1..(2 * n) |->
        IF k % 2 = 1 THEN <<"dev_addr", "=", AddressPool[(k + 1) \div 2]>>
                     ELSE <<"dev_name", "=", "Pixel">>]

PeerOutputs == {device_listing(n) : n \in 0..MaxPeers} \cup {<< <<"02:00:00:00:01:00">> >>}

\* stdout of wpa_cli status once a group is up
StatusOutputs ==
    { << <<"ssid", "=", "HomeNet">>, <<"psk", "=", "s3cr3t">>, <<>> >>,
      << <<"ssid", "=", "Unknown">>, <<"psk", "=", "Unknown">>, <<>> >>,
      << <<"ssid", "=">>, <<"psk", "=", "s3cr3t">> >>,
      << <<"ssid", "=", "HomeNet">> >>,
      << <<"wpa_state", "=", "COMPLETED">> >> }

\* what a status poll shows: a group is up, P2P still negotiating, command failed
PollReports == {"established", "inactive", "error"}
\* the polls at which the environment lets the group come up or the status
\* command fail
EstablishPolls == {1, PollLimit}

\* iwconfig wlan0: its exit status, whether 'Not-Associated' is printed, the ESSID
IwconfigReports ==
    { [rc |-> "error", associated |-> FALSE, essid |-> NoText],
      [rc |-> "ok",    associated |-> FALSE, essid |-> NoText],
      [rc |-> "ok",    associated |-> TRUE,  essid |-> <<"HomeNet">>],
      [rc |-> "ok",    associated |-> TRUE,  essid |-> <<"OtherNet">>] }

\* a store that keeps the record it already holds
keep_first_record(old, credentials) == IF old.written THEN old ELSE credentials

\* with open(self.config_file, 'w') as f: json.dump(credentials, f): mode 'w'
\* truncates the file, so the new record replaces whatever old was
json_dump(old, credentials) == credentials

NoCredentials == [written |-> FALSE, ssid |-> NoText, password |-> NoText]
Credentials(ssid, password) == [written |-> TRUE, ssid |-> ssid, password |-> password]

(***************************************************************************)
(* The dispatch loop and its handlers.                                     *)
(***************************************************************************)
Programs == {"AndroidWiFiDirectSharer", "WiFiDirectSharer", "AutoBluetoothWiFiSharer"}

\* start_time = time.time() ... time.time() - start_time; every value past the
\* timeout is kept as timeout_seconds + 1, the comparison below is all that reads it
Clock(t) == IF t > timeout_seconds THEN timeout_seconds + 1 ELSE t

\* time.time() - start_time > timeout_seconds
timeout_reached(t) == t > timeout_seconds

\* the first position of the session entry point of each program
entry_point ==
    IF program = "AndroidWiFiDirectSharer" THEN "step1"
    ELSE IF program = "WiFiDirectSharer" THEN "wd_step1"
    ELSE "monitor"

\* a call enters at time t / reaches an established group / returns: the log keeps
\* each strategy-level call of the session, late telling whether it was entered
\* with the timeout already reached
call(log, name, t) ==
    Append(log, [name |-> name, late |-> timeout_reached(t), established |-> FALSE,
                 ret |-> "running"])
established(log) == [log EXCEPT ![Len(log)].established = TRUE]
ret(log, r) == [log EXCEPT ![Len(log)].ret = r]
all_running(log) == \A k \in 1..Len(log) : log[k].ret = "running"

NoDisconnect == [seen |-> FALSE, calls |-> 0, connects |-> 0]

\* no command has run yet
NoCommand == [cmd |-> "none", out |-> "none"]

\* subprocess.run of cmd ended with out ("ok": exit status 0, "error":
\* CalledProcessError or TimeoutExpired) and printed output
ran_with(cmd, out, output) ==
    /\ last_cmd' = [cmd |-> cmd, out |-> out]
    /\ last_output' = output

ran(cmd, out) == ran_with(cmd, out, NoText)

\* a loop that hands a message to a handler while another handler is running
reentrant(position) == TRUE

\* the GLib main loop runs one handler at a time: the next message is handed
\* to its handler only once the running handler has returned
dispatching(position) == position = "idle"

\* no notification has been dispatched yet
NoNotification == [kind |-> "none"]

\* the radio stack sends a notification; the loop dispatches it once the running
\* handler has returned
dbus_signal(n) ==
    /\ emitted < MaxEvents
    /\ queue' = Append(queue, n)
    /\ emitted' = emitted + 1
    /\ disc_during' =
         IF /\ ~disc_during.seen
            /\ pc # "idle"
            /\ n.kind = "InterfacesRemoved"
            /\ n.path = session_path
            /\ all_running(call_log)
         THEN [seen |-> TRUE, calls |-> Len(call_log), connects |-> Len(connect_log)]
         ELSE disc_during
    /\ UNCHANGED <<program, connected_devices, handled, pc, elapsed, discovered_devices,
                   dev_idx, poll_i, cand, session_path, session_result, call_log,
                   connect_log, persist_count, apply_log, status_text,
                   sessions_started, last_cmd, last_output, storeVars, gattVars, runVars,
                   parseVars>>

\* a handler that takes every added object for a device
any_interface(n) == TRUE

\* "org.bluez.Device1" in interfaces
has_device_interface(n) == n.device

\* self.connected_devices.add(path)
remember_device(devices, path) == devices \cup {path}

on_device_connected ==
    /\ dispatching(pc)
    /\ queue # <<>>
    /\ Head(queue).kind = "InterfacesAdded"
    /\ queue' = Tail(queue)
    /\ handled' = Head(queue)
    /\ LET n == Head(queue)
       IN  IF has_device_interface(n)
           THEN /\ connected_devices' = remember_device(connected_devices, n.path)
                /\ pc' = entry_point
                /\ elapsed' = 0
                /\ discovered_devices' = <<>>
                /\ dev_idx' = 0
                /\ poll_i' = 0
                /\ cand' = NoCredentials
                /\ session_path' = n.path
                /\ session_result' = "running"
                /\ call_log' = <<>>
                /\ connect_log' = <<>>
                /\ persist_count' = 0
                /\ apply_log' = <<>>
                /\ status_text' = <<>>
                /\ disc_during' = NoDisconnect
                /\ sessions_started' = sessions_started + 1
                /\ last_cmd' = NoCommand
                /\ last_output' = NoText
           ELSE UNCHANGED <<connected_devices, sessionVars>>
    /\ UNCHANGED <<program, emitted, storeVars, gattVars, runVars, parseVars>>

\* a remove handler that leaves the set as it is
keep_device(devices, path) == devices

\* if path in self.connected_devices: self.connected_devices.remove(path)
forget_device(devices, path) == devices \ {path}

on_device_disconnected ==
    /\ dispatching(pc)
    /\ queue # <<>>
    /\ Head(queue).kind = "InterfacesRemoved"
    /\ queue' = Tail(queue)
    /\ handled' = Head(queue)
    /\ connected_devices' = forget_device(connected_devices, Head(queue).path)
    /\ UNCHANGED <<program, emitted, sessionVars, storeVars, gattVars, runVars, parseVars>>

(***************************************************************************)
(* Positions of a session.                                                 *)
(***************************************************************************)
stepFrame == <<program, monitorVars, gattVars, runVars, parseVars, session_path, disc_during,
               sessions_started>>

\* the session goes on at position p, st being the status text just parsed
goto_with(p, t, devs, idx, polls, c, st) ==
    /\ pc' = p
    /\ elapsed' = t
    /\ discovered_devices' = devs
    /\ dev_idx' = idx
    /\ poll_i' = polls
    /\ cand' = c
    /\ status_text' = st
    /\ session_result' = session_result

goto(p, t, devs, idx, polls, c) == goto_with(p, t, devs, idx, polls, c, <<>>)

\* a session entry point that lets the exception out instead of returning
raise_out(r, st) ==
    /\ pc' = "idle"
    /\ elapsed' = 0
    /\ discovered_devices' = discovered_devices
    /\ dev_idx' = 0
    /\ poll_i' = 0
    /\ cand' = NoCredentials
    /\ status_text' = st
    /\ session_result' = IF r = "False" THEN "raised" ELSE r

\* the session entry point returns r; the peer list stays as the record of what
\* the session had listed, the other locals are gone
finish_with(r, st) ==
    /\ pc' = "idle"
    /\ elapsed' = 0
    /\ discovered_devices' = discovered_devices
    /\ dev_idx' = 0
    /\ poll_i' = 0
    /\ cand' = NoCredentials
    /\ status_text' = st
    /\ session_result' = r

finish(r) == finish_with(r, <<>>)

(***************************************************************************)
(* AndroidWiFiDirectSharer.extract_wifi_credentials_from_android and the   *)
(* methods it calls. Each action is one blocking step of the session.      *)
(***************************************************************************)
\* Step 1: p2p_find, the 15 s wait and the timeout check after it
step1_discover ==
    /\ program = "AndroidWiFiDirectSharer"
    /\ pc = "step1"
    /\ \E out \in CmdOutcome, d \in FindTimes :
         /\ ran("p2p_find", out)
         /\ IF out = "error"
            THEN finish("False")
            ELSE IF timeout_reached(Clock(elapsed + d + DiscoveryWait))
                 THEN finish("False")
                 ELSE goto("step2", Clock(elapsed + d + DiscoveryWait), <<>>, 0, 0, cand)
    /\ UNCHANGED <<stepFrame, storeVars, call_log, connect_log, persist_count, apply_log>>

\* a listing that always counts as non-empty
always_output(text) == TRUE

\* result.stdout.strip() is not empty
has_output(text) == \E j \in 1..Len(text) : ~blank(text[j])

\* a session that asks for the peer list again until nothing is listed
list_again(devices) == "step2"

\* where the session goes after Step 2, given the parsed devices
after_listing(devices) == IF Len(devices) >= 1 THEN "step3" ELSE "step4"

\* Step 2: p2p_peers (check=True, no timeout) and parse_android_devices
step2_list_peers ==
    /\ program = "AndroidWiFiDirectSharer"
    /\ pc = "step2"
    /\ \E out \in CmdOutcome, d \in CommandTimes, stdout \in PeerOutputs :
         IF out = "error"
         THEN /\ ran("p2p_peers", "error")
              /\ finish("False")
         ELSE /\ ran_with("p2p_peers", "ok", stdout)
              /\ IF has_output(stdout)
                 THEN LET devs == parse_android_devices(stdout)
                      IN  goto(after_listing(devs), Clock(elapsed + d), devs, 1, 0, cand)
                 ELSE goto("step4", Clock(elapsed + d), <<>>, 1, 0, cand)
    /\ UNCHANGED <<stepFrame, storeVars, call_log, connect_log, persist_count, apply_log>>

\* a connect loop that leaves the remaining devices alone after a failure
abandon_peers(idx, devices) == "step4"

\* the connect loop after connect_to_android_via_wifi_direct returned False for
\* device idx: the next device, or Step 4 once the list is exhausted
after_failed_connect(idx, devices) ==
    IF idx + 1 <= Len(devices) THEN "step3" ELSE "step4"

\* a connect loop that goes on to the next device whatever the attempt returned
keep_trying(success, idx, devices) == after_failed_connect(idx, devices)

\* if self.connect_to_android_via_wifi_direct(...): return True / else: next device
connect_loop_next(success, idx, devices) ==
    IF success THEN "return_true" ELSE after_failed_connect(idx, devices)

\* connect_to_android_via_wifi_direct returns at time t (after a failure
\* debug_android_wifi_direct_state runs, which only logs)
connect_returns(success, t, st) ==
    IF connect_loop_next(success, dev_idx, discovered_devices) = "return_true"
    THEN finish_with("True", st)
    ELSE goto_with(connect_loop_next(success, dev_idx, discovered_devices), t,
                   discovered_devices, dev_idx + 1, 0, NoCredentials, st)

\* a connect loop without the timeout check
no_timeout(t) == FALSE

\* whether the connect loop gives up before the connect attempt that starts at t
loop_timeout(t) == timeout_reached(t)

\* Step 3, one iteration: the timeout check, then p2p_connect <address> pbc
step3_connect ==
    /\ program = "AndroidWiFiDirectSharer"
    /\ pc = "step3"
    /\ IF loop_timeout(elapsed)
       THEN /\ finish("False")
            /\ UNCHANGED <<call_log, connect_log, last_cmd, last_output>>
       ELSE \E out \in CmdOutcome :
              /\ ran("p2p_connect", out)
              /\ connect_log' = Append(connect_log, discovered_devices[dev_idx]["address"])
              /\ IF out = "error"
                 THEN /\ call_log' = ret(call(call_log, "connect", elapsed), "False")
                      /\ connect_returns(FALSE, elapsed, <<>>)
                 ELSE /\ call_log' = call(call_log, "connect", elapsed)
                      /\ goto("poll", elapsed, discovered_devices, dev_idx, 0, cand)
    /\ UNCHANGED <<stepFrame, storeVars, persist_count, apply_log>>

\* 'p2p_go_mode=1' in status or 'p2p_client_mode=1' in status, of a status
\* command that returned 0
check_android_wifi_direct_connection(report) == report = "established"

\* a poll loop that makes one poll more
one_more_poll(polls) == polls > PollLimit

\* whether the poll loop is over after polls polls without a group
polls_exhausted(polls) == polls >= PollLimit

\* one iteration of the poll loop: sleep(1), then wpa_cli status
poll_connection ==
    /\ program = "AndroidWiFiDirectSharer"
    /\ pc = "poll"
    /\ \E report \in PollReports :
         /\ report # "inactive" => (poll_i + 1) \in EstablishPolls
         /\ ran("status", IF report = "error" THEN "error" ELSE "ok")
         /\ IF check_android_wifi_direct_connection(report)
            THEN /\ goto("extract", Clock(elapsed + PollInterval), discovered_devices,
                         dev_idx, poll_i + 1, cand)
                 /\ call_log' = established(call_log)
            ELSE IF polls_exhausted(poll_i + 1)
                 THEN /\ connect_returns(FALSE, Clock(elapsed + PollInterval), <<>>)
                      /\ call_log' = ret(call_log, "False")
                 ELSE /\ goto("poll", Clock(elapsed + PollInterval), discovered_devices,
                              dev_idx, poll_i + 1, cand)
                      /\ call_log' = call_log
    /\ UNCHANGED <<stepFrame, storeVars, connect_log, persist_count, apply_log>>

\* 'ssid' in network_info or 'psk' in network_info
mentions_credentials(info) == <<"ssid">> \in DOMAIN info \/ <<"psk">> \in DOMAIN info
\* network_info.get('ssid', 'Unknown'), network_info.get('psk', 'Unknown')
ssid_of(info)     == dict_get(info, <<"ssid">>, Unknown)
password_of(info) == dict_get(info, <<"psk">>, Unknown)
\* the check written with or in place of and
accepts_either(ssid, password) == ssid # Unknown \/ password # Unknown

\* if ssid != 'Unknown' and password != 'Unknown'
accepts(ssid, password) == ssid # Unknown /\ password # Unknown

\* an extraction that takes the passphrase for the name and the name for the
\* passphrase
candidate_swapped(status) ==
    LET info == parse_network_info(status)
    IN  IF mentions_credentials(info) /\ accepts(ssid_of(info), password_of(info))
        THEN Credentials(password_of(info), ssid_of(info))
        ELSE NoCredentials

\* an extraction that saves whatever the status text mentions
candidate_unchecked(status) ==
    LET info == parse_network_info(status)
    IN  IF mentions_credentials(info)
        THEN Credentials(ssid_of(info), password_of(info))
        ELSE NoCredentials

\* the credentials extract_android_network_credentials / extract_network_credentials
\* saves for a status text, NoCredentials when it saves none
candidate_of(status) ==
    LET info == parse_network_info(status)
    IN  IF mentions_credentials(info) /\ accepts(ssid_of(info), password_of(info))
        THEN Credentials(ssid_of(info), password_of(info))
        ELSE NoCredentials

\* extract_credentials_from_android_wifi_direct: wpa_cli status, then
\* extract_android_network_credentials up to self.credentials_received = True;
\* write is the outcome of open(self.config_file, 'w') / json.dump
extract_credentials_from_android_wifi_direct ==
    /\ program = "AndroidWiFiDirectSharer"
    /\ pc = "extract"
    /\ \E out \in CmdOutcome, status \in StatusOutputs, write \in CmdOutcome :
         IF out = "error"
         THEN /\ ran("status", "error")
              /\ UNCHANGED <<storeVars, persist_count>>
              /\ call_log' = ret(call_log, "False")
              /\ connect_returns(FALSE, elapsed, <<>>)
         ELSE IF candidate_of(status).written /\ write = "ok"
              THEN /\ ran("write_config", "ok")
                   /\ config_file' = json_dump(config_file, candidate_of(status))
                   /\ credentials_received' = TRUE
                   /\ persist_count' = persist_count + 1
                   /\ call_log' = call_log
                   /\ goto_with("apply", elapsed, discovered_devices, dev_idx, poll_i,
                                candidate_of(status), status)
              ELSE /\ IF candidate_of(status).written
                      THEN ran("write_config", "error")
                      ELSE ran("status", "ok")
                   /\ UNCHANGED <<storeVars, persist_count>>
                   /\ call_log' = ret(call_log, "False")
                   /\ connect_returns(FALSE, elapsed, status)
    /\ UNCHANGED <<stepFrame, connect_log, apply_log>>

\* 'ESSID:' in output and 'Not-Associated' not in output, of an iwconfig that returned 0
check_wifi_connection(report) == report.rc = "ok" /\ report.associated

\* connect_to_extracted_network(ssid, password): stop P2P, write the client
\* configuration, start wpa_supplicant (out: any of these commands failing),
\* wait, check_wifi_connection
connect_to_extracted_network ==
    /\ program = "AndroidWiFiDirectSharer"
    /\ pc = "apply"
    /\ apply_log' = Append(apply_log, cand)
    /\ \E out \in CmdOutcome, report \in IwconfigReports :
         IF out = "error"
         THEN /\ ran("client_setup", "error")
              /\ call_log' = ret(call_log, "False")
              /\ connect_returns(FALSE, elapsed, <<>>)
         ELSE /\ ran_with("iwconfig", report.rc, report)
              /\ call_log' = ret(call_log, IF check_wifi_connection(report)
                                           THEN "True" ELSE "False")
              /\ connect_returns(check_wifi_connection(report),
                                 Clock(elapsed + ApplyWait), <<>>)
    /\ UNCHANGED <<stepFrame, storeVars, connect_log, persist_count>>

\* what the response queries of the secondary methods print
ResponseReports == {"error", "empty", "text", "group_id"}
\* check_for_android_service_responses / check_for_network_responses /
\* check_for_service_responses: returncode == 0 and stdout.strip()
has_responses(report) == report \in {"text", "group_id"}
\* check_android_group_status: ... and 'group_id=' in result.stdout
check_android_group_status(report) == report = "group_id"

\* Step 4: the timeout check, then try_android_specific_methods, Method 1:
\* p2p_serv_disc_req (check=True), wait, check_for_android_service_responses
step4_service_discovery ==
    /\ program = "AndroidWiFiDirectSharer"
    /\ pc = "step4"
    /\ IF timeout_reached(elapsed)
       THEN /\ finish("False")
            /\ call_log' = call_log
            /\ UNCHANGED <<last_cmd, last_output>>
       ELSE \E out \in CmdOutcome, report \in ResponseReports :
              IF out = "error"
              THEN /\ ran("p2p_serv_disc_req", "error")
                   /\ call_log' = ret(call(call_log, "specific", elapsed), "False")
                   /\ finish("False")
              ELSE /\ ran("p2p_serv_disc_resp", IF report = "error" THEN "error" ELSE "ok")
                   /\ IF has_responses(report)
                      THEN /\ call_log' = ret(call(call_log, "specific", elapsed), "True")
                           /\ finish("True")
                      ELSE /\ call_log' = call(call_log, "specific", elapsed)
                           /\ goto("method2", Clock(elapsed + ServiceWait),
                                   discovered_devices, 0, 0, cand)
    /\ UNCHANGED <<stepFrame, storeVars, connect_log, persist_count, apply_log>>

\* try_android_specific_methods, Method 2: p2p_group_add (check=True), wait,
\* check_android_group_status
method2_group_formation ==
    /\ program = "AndroidWiFiDirectSharer"
    /\ pc = "method2"
    /\ \E out \in CmdOutcome, report \in ResponseReports :
         IF out = "error"
         THEN /\ ran("p2p_group_add", "error")
              /\ call_log' = ret(call_log, "False")
              /\ finish("False")
         ELSE /\ ran("p2p_group_info", IF report = "error" THEN "error" ELSE "ok")
              /\ IF check_android_group_status(report)
                 THEN /\ call_log' = ret(call_log, "True")
                      /\ finish("True")
                 ELSE /\ call_log' = call_log
                      /\ goto("method3", Clock(elapsed + GroupWait), discovered_devices,
                              0, 0, cand)
    /\ UNCHANGED <<stepFrame, storeVars, connect_log, persist_count, apply_log>>

\* direct_android_extraction / direct_wifi_direct_extraction: p2p_peer <address>
\* (out1) and the indicator search in its output, then p2p_serv_disc_req (out2)
\* and check_for_android_network_info / check_for_network_info (found)
direct_extraction(out1, indicator, out2, found) ==
    IF out1 = "error" THEN FALSE
    ELSE IF indicator THEN TRUE
    ELSE IF out2 = "error" THEN FALSE
    ELSE found

\* the command direct_extraction ran last, and how it ended
direct_extraction_ran(out1, indicator, out2) ==
    IF out1 = "error" THEN ran("p2p_peer", "error")
    ELSE IF indicator THEN ran("p2p_peer", "ok")
    ELSE IF out2 = "error" THEN ran("p2p_serv_disc_req", "error")
    ELSE ran("list_networks", "ok")

\* try_android_specific_methods, Method 3
method3_direct_extraction ==
    /\ program = "AndroidWiFiDirectSharer"
    /\ pc = "method3"
    /\ \E out1 \in CmdOutcome, indicator \in BOOLEAN, out2 \in CmdOutcome, found \in BOOLEAN :
         /\ direct_extraction_ran(out1, indicator, out2)
         /\ IF direct_extraction(out1, indicator, out2, found)
            THEN /\ call_log' = ret(call_log, "True")
                 /\ finish("True")
            ELSE /\ call_log' = ret(call_log, "False")
                 /\ finish("False")
    /\ UNCHANGED <<stepFrame, storeVars, connect_log, persist_count, apply_log>>

(***************************************************************************)
(* WiFiDirectSharer.extract_wifi_credentials_via_wifi_direct and the       *)
(* methods it calls.                                                       *)
(***************************************************************************)
\* device.get("Address", "Unknown"): the Bluetooth address of the device that
\* connected, which its object path spells; a text like the listed addresses
device_address(path) == <<path>>

\* a session that goes on to the peer list whatever p2p_find returned
ignore_discovery_failure(out) == "wd_step2"

\* where the session goes after p2p_find: on CalledProcessError or
\* TimeoutExpired straight to the Bluetooth-only method, which returns
after_discovery(out) == IF out = "error" THEN "wd_bluetooth" ELSE "wd_step2"

\* Step 1: p2p_find and the 10 s wait; a failure falls back to Bluetooth only
wd_step1_discover ==
    /\ program = "WiFiDirectSharer"
    /\ pc = "wd_step1"
    /\ \E out \in CmdOutcome :
         /\ ran("p2p_find", out)
         /\ goto(after_discovery(out), elapsed, <<>>, 0, 0, cand)
    /\ UNCHANGED <<stepFrame, storeVars, call_log, connect_log, persist_count, apply_log>>

\* Step 2: p2p_peers (check=True); its failure raises into the outer handler,
\* which falls back to Bluetooth only
wd_step2_list_peers ==
    /\ program = "WiFiDirectSharer"
    /\ pc = "wd_step2"
    /\ \E out \in CmdOutcome, stdout \in PeerOutputs :
         /\ IF out = "error"
            THEN ran("p2p_peers", "error")
            ELSE ran_with("p2p_peers", "ok", stdout)
         /\ goto(IF out = "error" THEN "wd_bluetooth"
                 ELSE IF has_output(stdout) THEN "wd_connect" ELSE "wd_method1",
                 elapsed, <<>>, 0, 0, cand)
    /\ UNCHANGED <<stepFrame, storeVars, call_log, connect_log, persist_count, apply_log>>

\* where the session goes once connect_via_wifi_direct returned False
after_connect_via_wifi_direct == "wd_method1"

\* Step 3: connect_via_wifi_direct: p2p_connect <device_address> pbc, the 15 s
\* wait and check_wifi_direct_connection
wd_connect_via_wifi_direct ==
    /\ program = "WiFiDirectSharer"
    /\ pc = "wd_connect"
    /\ connect_log' = Append(connect_log, device_address(session_path))
    /\ \E out \in CmdOutcome, report \in PollReports :
         /\ IF out = "error"
            THEN ran("p2p_connect", "error")
            ELSE ran("status", IF report = "error" THEN "error" ELSE "ok")
         /\ IF out = "ok" /\ check_android_wifi_direct_connection(report)
            THEN /\ call_log' = established(call(call_log, "connect", elapsed))
                 /\ goto("wd_extract", elapsed, <<>>, 0, 0, cand)
            ELSE /\ call_log' = ret(call(call_log, "connect", elapsed), "False")
                 /\ goto(after_connect_via_wifi_direct, elapsed, <<>>, 0, 0, cand)
    /\ UNCHANGED <<stepFrame, storeVars, persist_count, apply_log>>

\* extract_credentials_from_wifi_direct: wpa_cli status, then
\* extract_network_credentials, which saves the credentials and returns True
wd_extract_credentials_from_wifi_direct ==
    /\ program = "WiFiDirectSharer"
    /\ pc = "wd_extract"
    /\ \E out \in CmdOutcome, status \in StatusOutputs, write \in CmdOutcome :
         IF out = "error"
         THEN /\ ran("status", "error")
              /\ UNCHANGED <<storeVars, persist_count>>
              /\ call_log' = ret(call_log, "False")
              /\ goto(after_connect_via_wifi_direct, elapsed, <<>>, 0, 0, cand)
         ELSE IF candidate_of(status).written /\ write = "ok"
              THEN /\ ran("write_config", "ok")
                   /\ config_file' = json_dump(config_file, candidate_of(status))
                   /\ credentials_received' = TRUE
                   /\ persist_count' = persist_count + 1
                   /\ call_log' = ret(call_log, "True")
                   /\ finish_with("True", status)
              ELSE /\ IF candidate_of(status).written
                      THEN ran("write_config", "error")
                      ELSE ran("status", "ok")
                   /\ UNCHANGED <<storeVars, persist_count>>
                   /\ call_log' = ret(call_log, "False")
                   /\ goto_with(after_connect_via_wifi_direct, elapsed, <<>>, 0, 0, cand,
                                status)
    /\ UNCHANGED <<stepFrame, connect_log, apply_log>>

\* a session that goes back to the connect attempt after the alternative methods
retry_connect == "wd_connect"

\* a session that returns once the alternative methods have failed
give_up == "idle"

\* where the session goes once try_alternative_wifi_direct_methods returned False
after_alternative_methods == "wd_bluetooth"

\* Step 4: try_alternative_wifi_direct_methods, Method 1: p2p_serv_disc_req
\* (check=True), wait, check_for_network_responses
wd_method1_network_request ==
    /\ program = "WiFiDirectSharer"
    /\ pc = "wd_method1"
    /\ \E out \in CmdOutcome, report \in ResponseReports :
         /\ IF out = "error"
            THEN ran("p2p_serv_disc_req", "error")
            ELSE ran("p2p_serv_disc_resp", IF report = "error" THEN "error" ELSE "ok")
         /\ IF out = "error"
            THEN /\ call_log' = ret(call(call_log, "alternative", elapsed), "False")
                 /\ goto(after_alternative_methods, elapsed, <<>>, 0, 0, cand)
            ELSE IF has_responses(report)
                 THEN /\ call_log' = ret(call(call_log, "alternative", elapsed), "True")
                      /\ finish("True")
                 ELSE /\ call_log' = call(call_log, "alternative", elapsed)
                      /\ goto("wd_method2", elapsed, <<>>, 0, 0, cand)
    /\ UNCHANGED <<stepFrame, storeVars, connect_log, persist_count, apply_log>>

\* Method 2: p2p_serv_disc_req (check=True), wait, check_for_service_responses
wd_method2_service_discovery ==
    /\ program = "WiFiDirectSharer"
    /\ pc = "wd_method2"
    /\ \E out \in CmdOutcome, report \in ResponseReports :
         /\ IF out = "error"
            THEN ran("p2p_serv_disc_req", "error")
            ELSE ran("p2p_serv_disc_resp", IF report = "error" THEN "error" ELSE "ok")
         /\ IF out = "error"
            THEN /\ call_log' = ret(call_log, "False")
                 /\ goto(after_alternative_methods, elapsed, <<>>, 0, 0, cand)
            ELSE IF has_responses(report)
                 THEN /\ call_log' = ret(call_log, "True")
                      /\ finish("True")
                 ELSE /\ call_log' = call_log
                      /\ goto("wd_method3", elapsed, <<>>, 0, 0, cand)
    /\ UNCHANGED <<stepFrame, storeVars, connect_log, persist_count, apply_log>>

\* Method 3: direct_wifi_direct_extraction
wd_method3_direct_extraction ==
    /\ program = "WiFiDirectSharer"
    /\ pc = "wd_method3"
    /\ \E out1 \in CmdOutcome, indicator \in BOOLEAN, out2 \in CmdOutcome, found \in BOOLEAN :
         /\ direct_extraction_ran(out1, indicator, out2)
         /\ IF direct_extraction(out1, indicator, out2, found)
            THEN /\ call_log' = ret(call_log, "True")
                 /\ finish("True")
            ELSE /\ call_log' = ret(call_log, "False")
                 /\ goto(after_alternative_methods, elapsed, <<>>, 0, 0, cand)
    /\ UNCHANGED <<stepFrame, storeVars, connect_log, persist_count, apply_log>>

\* parse_bluetooth_device_info on the output of a bluetoothctl info that returned 0:
\* 'network' in device_info.lower() or 'wifi' in device_info.lower()
parse_bluetooth_device_info(out, indicator) == out = "ok" /\ indicator

\* Step 5: extract_wifi_credentials_via_bluetooth_only
wd_bluetooth_only ==
    /\ program = "WiFiDirectSharer"
    /\ pc = "wd_bluetooth"
    /\ \E out \in CmdOutcome, indicator \in BOOLEAN :
         /\ ran("bluetoothctl_info", out)
         /\ IF parse_bluetooth_device_info(out, indicator)
            THEN /\ call_log' = ret(call(call_log, "bluetooth_only", elapsed), "True")
                 /\ finish("True")
            ELSE /\ call_log' = ret(call(call_log, "bluetooth_only", elapsed), "False")
                 /\ finish("False")
    /\ UNCHANGED <<stepFrame, storeVars, connect_log, persist_count, apply_log>>

(***************************************************************************)
(* AutoBluetoothWiFiSharer: the GATT service a client writes the           *)
(* credentials to, and the handlers that read them.                        *)
(***************************************************************************)
Gatt == program = "AutoBluetoothWiFiSharer"

\* WiFiCredentialService.__init__
NoService == [wifi_ssid |-> Unknown, wifi_password |-> Unknown]

\* the values a client writes to a characteristic
WrittenValues == {NoText, Unknown, <<"HomeNet">>}

\* PropertiesChanged(interface, changed, invalidated); value says whether
\* "Value" is among the changed properties
CharacteristicNotifications ==
    [kind : {"PropertiesChanged"}, path : {"/char0"}, value : BOOLEAN]

\* the signal receiver for PropertiesChanged is registered by this program only
PropertiesChanged(n) ==
    /\ Gatt
    /\ dbus_signal(n)

\* WiFiSSIDCharacteristic.WriteValue: a method call, dispatched by the main
\* loop between two handlers
WiFiSSIDCharacteristic_WriteValue ==
    /\ Gatt
    /\ dispatching(pc)
    /\ \E value \in WrittenValues :
         /\ value # wifi_service.wifi_ssid
         /\ wifi_service' = [wifi_service EXCEPT !.wifi_ssid = value]
    /\ UNCHANGED <<program, monitorVars, sessionVars, storeVars, runVars, parseVars>>

\* WiFiPasswordCharacteristic.WriteValue
WiFiPasswordCharacteristic_WriteValue ==
    /\ Gatt
    /\ dispatching(pc)
    /\ \E value \in WrittenValues :
         /\ value # wifi_service.wifi_password
         /\ wifi_service' = [wifi_service EXCEPT !.wifi_password = value]
    /\ UNCHANGED <<program, monitorVars, sessionVars, storeVars, runVars, parseVars>>

\* a check that looks at the network name only
has_ssid(service) == service.wifi_ssid # NoText /\ service.wifi_ssid # Unknown

\* wifi_ssid and wifi_ssid != "Unknown" and wifi_password and wifi_password != "Unknown"
has_credentials(service) ==
    /\ service.wifi_ssid # NoText /\ service.wifi_ssid # Unknown
    /\ service.wifi_password # NoText /\ service.wifi_password # Unknown

\* 'ESSID:' in result.stdout and 'off/any' not in result.stdout (the exit
\* status of iwconfig is not read)
gatt_check_wifi_connection(report) == report.associated

\* a connector that saves the credentials without looking at the association
connect_without_check(out, report, write) ==
    IF out = "error" THEN "error"
    ELSE IF write = "error" THEN "raised"
    ELSE "connected"

\* what connect_to_wifi does: "error" CalledProcessError of cp or systemctl,
\* "refused" no association seen, "raised" the write of config_file failed,
\* "connected" the credentials were saved and True is returned
connect_to_wifi(out, report, write) ==
    IF out = "error" THEN "error"
    ELSE IF ~gatt_check_wifi_connection(report) THEN "refused"
    ELSE IF write = "error" THEN "raised"
    ELSE "connected"

\* check_credentials with connect_to_wifi inside it; the position the handler
\* is left at is set by the caller
check_credentials ==
    IF has_credentials(wifi_service)
    THEN \E out \in CmdOutcome, report \in IwconfigReports, write \in CmdOutcome :
           LET c == Credentials(wifi_service.wifi_ssid, wifi_service.wifi_password)
               r == connect_to_wifi(out, report, write)
           IN  /\ credentials_received' = TRUE
               /\ apply_log' = Append(apply_log, c)
               /\ IF r = "error" THEN ran("client_setup", "error")
                  ELSE IF r = "refused" THEN ran_with("iwconfig", report.rc, report)
                  ELSE ran_with("write_config", write, report)
               /\ config_file' = IF r = "connected" THEN json_dump(config_file, c)
                                 ELSE config_file
               /\ persist_count' = IF r = "connected" THEN persist_count + 1
                                   ELSE persist_count
               /\ session_result' = IF r = "connected" THEN "True" ELSE "False"
    ELSE UNCHANGED <<storeVars, apply_log, last_cmd, last_output, persist_count,
                     session_result>>

\* self.mainloop.quit() was called in the handler that returns now
after_handler(result) == IF result = "True" THEN "quit" ELSE "idle"

\* on_characteristic_changed: check_credentials when "Value" has changed
on_characteristic_changed ==
    /\ Gatt
    /\ dispatching(pc)
    /\ queue # <<>>
    /\ Head(queue).kind = "PropertiesChanged"
    /\ queue' = Tail(queue)
    /\ handled' = Head(queue)
    /\ IF Head(queue).value
       THEN /\ check_credentials
            /\ pc' = after_handler(session_result')
       ELSE UNCHANGED <<storeVars, apply_log, last_cmd, last_output, persist_count,
                        session_result, pc>>
    /\ UNCHANGED <<program, emitted, connected_devices, gattVars, runVars, parseVars, elapsed,
                   discovered_devices, dev_idx, poll_i, cand, session_path, call_log,
                   connect_log, status_text, disc_during, sessions_started>>

\* while not self.credentials_received and len(self.connected_devices) > 0
monitoring == ~credentials_received /\ connected_devices # {}

\* monitor_credentials, called by on_device_connected: one turn of its loop
\* (check_credentials, sleep 2), or its return to the main loop; the loop has
\* no limit, its turns are counted up to MaxChecks and then from 1 again
monitor_credentials ==
    /\ Gatt
    /\ pc = "monitor"
    /\ IF monitoring
       THEN /\ check_credentials
            /\ poll_i' = IF poll_i < MaxChecks THEN poll_i + 1 ELSE 1
            /\ pc' = pc
       ELSE /\ pc' = after_handler(session_result)
            /\ poll_i' = 0
            /\ UNCHANGED <<storeVars, apply_log, last_cmd, last_output, persist_count,
                           session_result>>
    /\ UNCHANGED <<stepFrame, elapsed, discovered_devices, dev_idx, cand, call_log,
                   connect_log, status_text>>

(***************************************************************************)
(* The specification of the three programs.                                *)
(***************************************************************************)
InitParse ==
    /\ raw_text = <<>>
    /\ last_call = "none"
    /\ ret_info = EmptyDict
    /\ ret_devices = <<>>

\* the attributes __init__ sets, with run() at position and its setup at setup
sharer_at(position, setup) ==
    /\ setup_state = setup
    /\ run_result = "running"
    /\ queue = <<>>
    /\ emitted = 0
    /\ handled = NoNotification
    /\ connected_devices = {}
    /\ pc = position
    /\ elapsed = 0
    /\ discovered_devices = <<>>
    /\ dev_idx = 0
    /\ poll_i = 0
    /\ cand = NoCredentials
    /\ config_file = NoCredentials
    /\ credentials_received = FALSE
    /\ session_path = "none"
    /\ session_result = "none"
    /\ call_log = <<>>
    /\ connect_log = <<>>
    /\ persist_count = 0
    /\ apply_log = <<>>
    /\ status_text = <<>>
    /\ disc_during = NoDisconnect
    /\ sessions_started = 0
    /\ last_cmd = NoCommand
    /\ last_output = NoText
    /\ wifi_service = NoService

\* run() has completed its setup steps and has started the main loop
InitSharer == sharer_at("idle", "complete")

Init ==
    /\ program \in Programs
    /\ InitSharer
    /\ InitParse

Next ==
    \/ \E n \in Notifications : dbus_signal(n)
    \/ \E n \in CharacteristicNotifications : PropertiesChanged(n)
    \/ on_device_connected
    \/ on_device_disconnected
    \/ step1_discover
    \/ step2_list_peers
    \/ step3_connect
    \/ poll_connection
    \/ extract_credentials_from_android_wifi_direct
    \/ connect_to_extracted_network
    \/ step4_service_discovery
    \/ method2_group_formation
    \/ method3_direct_extraction
    \/ wd_step1_discover
    \/ wd_step2_list_peers
    \/ wd_connect_via_wifi_direct
    \/ wd_extract_credentials_from_wifi_direct
    \/ wd_method1_network_request
    \/ wd_method2_service_discovery
    \/ wd_method3_direct_extraction
    \/ wd_bluetooth_only
    \/ WiFiSSIDCharacteristic_WriteValue
    \/ WiFiPasswordCharacteristic_WriteValue
    \/ on_characteristic_changed
    \/ monitor_credentials

Spec == Init /\ [][Next]_vars

\* a parser whose mapping lives on from one call to the next
parse_merging(status) ==
    LET fresh == parse_network_info(status)
    IN  [x \in (DOMAIN ret_info) \cup (DOMAIN fresh) |->
            IF x \in DOMAIN fresh THEN fresh[x] ELSE ret_info[x]]

(***************************************************************************)
(* The parsers on their own: a caller hands a text to one of the parsers,  *)
(* gets its return value, and later comes back with another text.          *)
(***************************************************************************)
\* lines = status.split('\n'); network_info = {}; the loop over the lines
parse_status(status) == parse_network_info(status)

\* the texts of a second call
FollowUps ==
    { << <<"psk", "=", "first">>, <<"wpa_state">>, <<"psk", "=", "second", "=", "x">> >>,
      << <<"ssid", "=", "Unknown">>, <<"wpa_state">> >>,
      << <<"dev_addr", "=", "B">> >>,
      << <<"dev_name", "=", "Nexus">> >> }

\* a parser call that also saves what it has found
parse_and_save ==
    /\ ret_info' = parse_status(raw_text)
    /\ last_call' = "status"
    /\ config_file' = candidate_of(raw_text)
    /\ credentials_received' = candidate_of(raw_text).written
    /\ UNCHANGED <<program, monitorVars, sessionVars, gattVars, runVars, raw_text,
                   ret_devices>>

call_parse_status ==
    /\ ret_info' = parse_status(raw_text)
    /\ last_call' = "status"
    /\ UNCHANGED <<program, monitorVars, sessionVars, storeVars, gattVars, runVars, raw_text,
                   ret_devices>>

call_parse_android_devices ==
    /\ ret_devices' = parse_android_devices(raw_text)
    /\ last_call' = "peers"
    /\ UNCHANGED <<program, monitorVars, sessionVars, storeVars, gattVars, runVars, raw_text,
                   ret_info>>

next_input ==
    /\ last_call # "none"
    /\ raw_text' \in FollowUps
    /\ last_call' = "none"
    /\ UNCHANGED <<program, monitorVars, sessionVars, storeVars, gattVars, runVars, ret_info,
                   ret_devices>>

InitParsers ==
    /\ program = "AndroidWiFiDirectSharer"
    /\ InitSharer
    /\ raw_text \in StatusInputs \cup PeerInputs
    /\ last_call = "none"
    /\ ret_info = EmptyDict
    /\ ret_devices = <<>>

NextParsers ==
    \/ call_parse_status
    \/ call_parse_android_devices
    \/ next_input

SpecParsers == InitParsers /\ [][NextParsers]_vars

(***************************************************************************)
(* Properties of the sessions.                                             *)
(***************************************************************************)
Android == program = "AndroidWiFiDirectSharer"

\* the priority of the strategy a logged call belongs to
Priority(name) ==
    IF name = "connect" THEN 1
    ELSE IF name \in {"specific", "alternative"} THEN 2
    ELSE 3

Calls == 1..Len(call_log)
ConnectCalls == {i \in Calls : call_log[i].name = "connect"}

\* C1: within one session the strategies are called in priority order (each at
\* most once in WiFiDirectSharer; the connect strategy once per peer in
\* AndroidWiFiDirectSharer), one call at a time, and the session returns True
\* at the first call that returns True. In particular, when every call of
\* strategy 1 returned False and strategy 2 returned True, the session has
\* ended with True and strategy 3 was never called.
C1_StrategyOrdering ==
    /\ \A i, j \in Calls :
         i < j => /\ Priority(call_log[i].name) <= Priority(call_log[j].name)
                  /\ ~Android => Priority(call_log[i].name) < Priority(call_log[j].name)
                  /\ call_log[i].ret = "False"
    /\ \A i \in Calls :
         call_log[i].ret = "True" => pc = "idle" /\ session_result = "True"
    /\ ( /\ ConnectCalls # {}
         /\ \A i \in ConnectCalls : call_log[i].ret = "False"
         /\ \E j \in Calls : Priority(call_log[j].name) = 2 /\ call_log[j].ret = "True" )
       => /\ pc = "idle"
          /\ session_result = "True"
          /\ \A j \in Calls : Priority(call_log[j].name) <= 2
          /\ Priority(call_log[Len(call_log)].name) = 2

\* a session of WiFiDirectSharer whose connect attempt returned False and whose
\* alternative methods returned True has ended with True after these two calls
C1_Witness ==
    /\ ~Android
    /\ pc = "idle"
    /\ session_result = "True"
    /\ Len(call_log) = 2
    /\ call_log[1].name = "connect" /\ call_log[1].ret = "False"
    /\ call_log[2].name = "alternative" /\ call_log[2].ret = "True"

\* C2 as stated: an attempt that does not fit into the time left is never
\* started, so no step of a started attempt runs past the deadline.
C2_Original ==
    (Android /\ pc \in {"poll", "extract", "apply", "method2", "method3"})
        => elapsed <= timeout_seconds

\* C2: in a session of AndroidWiFiDirectSharer no connect attempt and no call of
\* the secondary methods starts at an elapsed time past timeout_seconds, and
\* when the elapsed time is past timeout_seconds at the check before a connect
\* attempt or before the secondary methods, the session ends with False and
\* neither a strategy call nor a connect request is made. (The check reads the
\* time already spent only: an attempt that has started may run past it.)
C2_DeadlineAtPhaseBoundaries ==
    [][ Android =>
          /\ \A i \in 1..Len(call_log') : ~call_log'[i].late
          /\ (pc \in {"step3", "step4"} /\ timeout_reached(elapsed))
               => /\ call_log' = call_log
                  /\ connect_log' = connect_log
                  /\ pc' \in {pc, "idle"}
                  /\ pc' = "idle" => session_result' = "False" ]_vars

\* a session that listed two peers ended with False after the one connect
\* attempt for the first peer: the check before the second attempt stopped it
C2_Witness ==
    /\ Android
    /\ pc = "idle"
    /\ session_result = "False"
    /\ Len(discovered_devices) = 2
    /\ connect_log = << <<"A">> >>
    /\ Len(call_log) = 1
    /\ call_log[1].name = "connect"

\* C3 as stated: once the status poll of a peer has reported an established
\* connection, no connect request is issued for a later peer.
C3_Original ==
    \A i, j \in ConnectCalls : i < j => ~call_log[i].established

\* C3: the connect loop of AndroidWiFiDirectSharer issues its connect requests
\* in the order of the peer list, one per connect attempt, and the first peer
\* whose connect attempt returns True (group established, credentials saved,
\* network joined) ends the loop and the session with True: no connect request
\* is issued after it.
C3_FirstSuccessfulPeerWins ==
    Android =>
      /\ Len(connect_log) = Cardinality(ConnectCalls)
      /\ \A i \in 1..Len(connect_log) :
           /\ i <= Len(discovered_devices)
           /\ connect_log[i] = discovered_devices[i]["address"]
      /\ \A i \in ConnectCalls :
           call_log[i].ret = "True"
             => /\ i = Len(call_log)
                /\ Len(connect_log) = i
                /\ pc = "idle"
                /\ session_result = "True"

\* peers A and B were listed, the attempt for A returned True and the session
\* ended without a connect request for B
C3_Witness ==
    /\ Android
    /\ pc = "idle"
    /\ session_result = "True"
    /\ Len(discovered_devices) = 2
    /\ connect_log = << <<"A">> >>
    /\ Len(call_log) = 1
    /\ call_log[1].established
    /\ call_log[1].ret = "True"

\* C4 as stated: after a remove notification for the session's peer that
\* arrives while no strategy has completed, the session makes no further
\* strategy call and no connect request, saves nothing, and ends Cancelled.
C4_Cancellation ==
    disc_during.seen =>
      /\ Len(call_log) = disc_during.calls
      /\ Len(connect_log) = disc_during.connects
      /\ persist_count = 0
      /\ pc = "idle" => session_result = "Cancelled"

\* C5 as stated: the dispatch of an add notification for a path that is already
\* among the connected devices opens no session.
C5_RepeatedAddIgnored ==
    [][ ( /\ pc = "idle"
          /\ queue # <<>>
          /\ Head(queue).kind = "InterfacesAdded"
          /\ Head(queue).path \in connected_devices
          /\ queue' = Tail(queue) )
        => /\ sessions_started' = sessions_started
           /\ pc' = "idle" ]_vars

\* whether a saved record holds a valid credential
valid_record(r) ==
    /\ r.written
    /\ r.ssid # NoText /\ r.ssid # Unknown
    /\ r.password # NoText /\ r.password # Unknown

\* C6 as stated: a session that returned True has saved a valid credential.
C6_SuccessOnlyWithCredential ==
    (pc = "idle" /\ session_result = "True")
        => persist_count >= 1 /\ valid_record(config_file)

\* C7 as stated: a saved credential has a non-empty network name and a
\* non-empty passphrase, both different from 'Unknown'.
C7_SavedIsValid ==
    config_file.written => valid_record(config_file)

\* a status text in which ssid or psk is missing or has the value 'Unknown'
lacks_credentials(text) ==
    LET info == parse_network_info(text)
    IN  \/ <<"ssid">> \notin DOMAIN info
        \/ <<"psk">> \notin DOMAIN info
        \/ info[<<"ssid">>] = Unknown
        \/ info[<<"psk">>] = Unknown

\* C8: when the status text read after an established connection lacks the
\* ssid or the psk key, or gives one of them the value 'Unknown', the step
\* saves nothing, applies nothing, and the session goes on with the next peer
\* or the next strategy.
C8_SentinelRejected ==
    [][ ( /\ pc \in {"extract", "wd_extract"}
          /\ status_text' # <<>>
          /\ lacks_credentials(status_text') )
        => /\ config_file' = config_file
           /\ credentials_received' = credentials_received
           /\ persist_count' = persist_count
           /\ apply_log' = apply_log
           /\ call_log'[Len(call_log')].ret = "False"
           /\ pc' \in (IF Android THEN {"step3", "step4"} ELSE {"wd_method1"})
           /\ (Android /\ pc' = "step3") => dev_idx' = dev_idx + 1 ]_vars

\* the text ssid=Unknown / psk=Unknown was read from the first of two peers:
\* nothing is saved and the connect loop is at the second peer
C8_Witness ==
    /\ Android
    /\ status_text = << <<"ssid", "=", "Unknown">>, <<"psk", "=", "Unknown">>, <<>> >>
    /\ pc = "step3"
    /\ dev_idx = 2
    /\ persist_count = 0
    /\ apply_log = <<>>
    /\ ~config_file.written

(***************************************************************************)
(* Properties of the parsers.                                              *)
(***************************************************************************)
\* the position of the first '=' of a line that has one, the text before it and
\* the text after it, both without the blanks around them
first_separator(line) == Min({k \in 1..Len(line) : line[k] = "="})
key_of(line)   == strip(SubSeq(line, 1, first_separator(line) - 1))
value_of(line) == strip(SubSeq(line, first_separator(line) + 1, Len(line)))

\* the lines of a text that contain '=', and those among them that name key
separator_lines(text) == {j \in 1..Len(text) : \E k \in 1..Len(text[j]) : text[j][k] = "="}
lines_of_key(text, key) == {j \in separator_lines(text) : key_of(text[j]) = key}

\* C9: the mapping a status parse returns has exactly the keys of the lines of
\* its argument that contain '='; each line is split at its first '='; a key
\* that occurs on several lines has the value of the last of them; the result
\* depends on the argument of this call alone, whatever an earlier call returned.
C9_KeyValueParsing ==
    last_call = "status" =>
      /\ DOMAIN ret_info = {key_of(raw_text[j]) : j \in separator_lines(raw_text)}
      /\ \A key \in DOMAIN ret_info :
           ret_info[key] = value_of(raw_text[Max(lines_of_key(raw_text, key))])

\* a second call, on a text no first call is made with: psk is named twice, a
\* line without '=' stands between, the later value holds a second '='; the
\* mapping holds psk alone, with the later value from its first '=' on
C9_Witness ==
    /\ last_call = "status"
    /\ raw_text = << <<"psk", "=", "first">>, <<"wpa_state">>,
                     <<"psk", "=", "second", "=", "x">> >>
    /\ ret_info = dict_put(EmptyDict, <<"psk">>, <<"second", "=", "x">>)

\* the lines the peer-list parser loops over, each without the blanks around it
peer_lines(text) ==
    LET solid == {j \in 1..Len(text) : strip(text[j]) # NoText}
    IN  IF solid = {} THEN <<>>
        ELSE [j \in 1..(Max(solid) - Min(solid) + 1) |-> strip(text[Min(solid) + j - 1])]

is_marker(line) == Len(line) >= 2 /\ line[1] = "dev_addr" /\ line[2] = "="
marker_lines(lines) == {j \in 1..Len(lines) : is_marker(lines[j])}

\* the i-th smallest element of a set of numbers
nth(S, i) == CHOOSE x \in S : Cardinality({y \in S : y < x}) = i - 1

\* the attribute a line sets: its record key and its leading word
Attributes ==
    { <<"name", "dev_name">>, <<"p2p_address", "p2p_dev_addr">>,
      <<"go_intent", "p2p_go_intent">>, <<"capabilities", "p2p_dev_capab">> }

\* the lines after the i-th marker and before the next one that set attribute a
attribute_lines(lines, i, a) ==
    LET M    == marker_lines(lines)
        from == nth(M, i)
        to   == IF i < Cardinality(M) THEN nth(M, i + 1) ELSE Len(lines) + 1
    IN  {j \in (from + 1)..(to - 1) :
            Len(lines[j]) >= 2 /\ lines[j][1] = a[2] /\ lines[j][2] = "="}

\* C10: the peer-list parser returns one record per dev_addr= line, in the order
\* of the lines; the record of a dev_addr= line has the address of that line and
\* the attributes of the attribute lines between it and the next dev_addr= line
\* (the end of the text for the last one), the last such line of an attribute
\* giving its value; every record has an address.
C10_PeerListParsing ==
    last_call = "peers" =>
      LET lines == peer_lines(raw_text)
          M     == marker_lines(lines)
      IN  /\ Len(ret_devices) = Cardinality(M)
          /\ \A i \in 1..Len(ret_devices) :
               /\ "address" \in DOMAIN ret_devices[i]
               /\ ret_devices[i]["address"] = SubSeq(lines[nth(M, i)], 3, Len(lines[nth(M, i)]))
               /\ DOMAIN ret_devices[i] =
                    {"address"} \cup {a[1] : a \in {b \in Attributes :
                                                  attribute_lines(lines, i, b) # {}}}
               /\ \A a \in Attributes :
                    attribute_lines(lines, i, a) # {} =>
                      LET line == lines[Max(attribute_lines(lines, i, a))]
                      IN  ret_devices[i][a[1]] = SubSeq(line, 3, Len(line))

\* two dev_addr= lines with a dev_name= line after the first: two records in
\* order, the name on the first, the last record flushed at the end of the text
C10_Witness ==
    /\ last_call = "peers"
    /\ raw_text = << <<"dev_addr", "=", "A">>, <<"dev_name", "=", "Pixel">>,
                     <<" ", "dev_addr", "=", "B", " ">> >>
    /\ Len(ret_devices) = 2
    /\ ret_devices[1] = dict_put(dict_put(EmptyDict, "address", <<"A">>), "name", <<"Pixel">>)
    /\ ret_devices[2] = dict_put(EmptyDict, "address", <<"B">>)

\* C11 as stated: over any session the durable record is written at most once.
C11_PersistAtMostOnce ==
    persist_count <= 1

\* the credentials handed to the network connector last
applied == apply_log[Len(apply_log)]

\* C12 as stated: the network connector returns success only when the network
\* name iwconfig reports is the requested one.
C12_VerifiedIdentity ==
    /\ (Android /\ last_cmd.cmd = "iwconfig" /\ call_log[Len(call_log)].ret = "True")
         => last_output.essid = applied.ssid
    /\ (Gatt /\ last_cmd.cmd = "write_config")
         => last_output.essid = applied.ssid

\* a step in which the network connector was called once
apply_step == Len(apply_log') = Len(apply_log) + 1

C14_VerificationFailureKeepsCredential ==
    ( /\ apply_log # <<>>
      /\ last_cmd.cmd = "iwconfig"
      /\ ~check_wifi_connection(last_output) )
        => /\ session_result # "True"
           /\ config_file = applied

\* C15 as stated: when the write of a valid candidate has failed, the session
\* has ended without success: no further peer or strategy is tried.
C15_PersistenceErrorFatal ==
    last_cmd = [cmd |-> "write_config", out |-> "error"]
        => /\ pc \in {"idle", "quit"}
           /\ session_result = "False"

\* the step just taken ran p2p_find, which failed or exceeded its timeout
discovery_failed ==
    /\ pc \in {"step1", "wd_step1"}
    /\ last_cmd' = [cmd |-> "p2p_find", out |-> "error"]

\* C16: when p2p_find fails or exceeds its timeout, the P2P attempt is over in
\* that very step: discovery is not issued again, no peer list is queried, no
\* connect request and no secondary method is made. AndroidWiFiDirectSharer
\* returns False at once; WiFiDirectSharer goes straight to its Bluetooth-only
\* method, after which the session returns.
C16_DiscoveryFailure ==
    [][ /\ discovery_failed
          => /\ call_log' = <<>>
             /\ connect_log' = <<>>
             /\ discovered_devices' = <<>>
             /\ Android => pc' = "idle" /\ session_result' = "False"
             /\ ~Android => pc' = "wd_bluetooth"
        /\ pc = "wd_bluetooth"
          => /\ last_cmd'.cmd \in {last_cmd.cmd, "bluetoothctl_info"}
             /\ connect_log' = connect_log
             /\ pc' \in {"wd_bluetooth", "idle"}
             /\ Len(call_log') > Len(call_log)
                  => call_log'[Len(call_log')].name = "bluetooth_only" ]_vars

\* a session of AndroidWiFiDirectSharer returned False right after the failed
\* p2p_find
C16_Witness ==
    /\ Android
    /\ pc = "idle"
    /\ session_result = "False"
    /\ last_cmd = [cmd |-> "p2p_find", out |-> "error"]
    /\ call_log = <<>>
    /\ connect_log = <<>>

\* a peer list without any entry: nothing but blank lines
empty_listing(text) == \A j \in 1..Len(text) : blank(text[j])

\* the step just taken ran p2p_peers, which printed an empty peer list
empty_enumeration ==
    /\ pc \in {"step2", "wd_step2"}
    /\ last_cmd' = [cmd |-> "p2p_peers", out |-> "ok"]
    /\ empty_listing(last_output')

\* the positions of the secondary methods and of the Bluetooth-only method
after_connect_loop ==
    {"step4", "method2", "method3", "wd_method1", "wd_method2", "wd_method3", "wd_bluetooth"}

\* C17: when p2p_peers prints an empty peer list, no connect request is issued
\* and the connect strategy yields no credential: nothing is saved or applied,
\* and the session goes on with what follows the connect loop (the secondary
\* methods), from where no connect request is issued either.
C17_EmptyEnumeration ==
    [][ /\ empty_enumeration
          => /\ connect_log' = <<>>
             /\ call_log' = <<>>
             /\ discovered_devices' = <<>>
             /\ persist_count' = 0
             /\ apply_log' = <<>>
             /\ UNCHANGED storeVars
             /\ pc' = (IF Android THEN "step4" ELSE "wd_method1")
        /\ pc \in after_connect_loop
          => /\ connect_log' = connect_log
             /\ persist_count' = persist_count
             /\ apply_log' = apply_log
             /\ UNCHANGED storeVars
             /\ pc' \in after_connect_loop \cup {"idle"}
             /\ \A i \in 1..Len(call_log') : i > Len(call_log) =>
                  call_log'[i].name # "connect" ]_vars

\* AndroidWiFiDirectSharer is at Step 4 right after an empty peer list, without
\* any connect request
C17_Witness ==
    /\ Android
    /\ pc = "step4"
    /\ last_cmd = [cmd |-> "p2p_peers", out |-> "ok"]
    /\ empty_listing(last_output)
    /\ connect_log = <<>>
    /\ persist_count = 0

\* C18: the connect requests of AndroidWiFiDirectSharer go to the listed
\* devices in the order of the list, the i-th request to the i-th device, so
\* that no device gets a second request in the session; and when p2p_connect
\* fails for a device, the attempt returns False without a poll and the loop is
\* at the next device of the list (at Step 4 after the last one).
C18_ConnectLoopOrder ==
    Android =>
      /\ Len(connect_log) <= Len(discovered_devices)
      /\ \A i \in 1..Len(connect_log) :
           /\ connect_log[i] = discovered_devices[i]["address"]
           /\ \A j \in 1..Len(connect_log) : i # j => connect_log[i] # connect_log[j]
      /\ last_cmd = [cmd |-> "p2p_connect", out |-> "error"]
           => /\ Len(call_log) = Len(connect_log)
              /\ call_log[Len(call_log)].name = "connect"
              /\ call_log[Len(call_log)].ret = "False"
              /\ ~call_log[Len(call_log)].established
              /\ IF Len(connect_log) < Len(discovered_devices)
                 THEN pc = "step3" /\ dev_idx = Len(connect_log) + 1
                 ELSE pc = "step4"

\* p2p_connect failed for the first of two listed devices and the loop is at
\* the second
C18_Witness ==
    /\ Android
    /\ last_cmd = [cmd |-> "p2p_connect", out |-> "error"]
    /\ Len(discovered_devices) = 2
    /\ connect_log = << <<"A">> >>
    /\ pc = "step3"
    /\ dev_idx = 2

\* C19: after an accepted connect request the status is polled one poll per
\* step and never more than PollLimit (45) times. A poll that reports an
\* established group ends the polling; a poll that does not, be it because no
\* group is up or because the status command failed, is followed by the next
\* poll, and after exactly the 45th such poll the attempt returns False and
\* the session is at the next listed device, or at Step 4 when none is left.
C19_BoundedPoll ==
    [][ (pc = "poll" /\ queue' = queue) =>
          /\ poll_i < PollLimit
          /\ last_cmd'.cmd = "status"
          /\ pc' \in {"poll", "extract", "step3", "step4"}
          /\ last_cmd'.out = "error" => pc' # "extract"
          /\ pc' \in {"poll", "extract"} => poll_i' = poll_i + 1
          /\ pc' = "poll" => poll_i' < PollLimit
          /\ pc' = "extract" => call_log'[Len(call_log')].established
          /\ pc' \in {"step3", "step4"}
               => /\ poll_i + 1 = PollLimit
                  /\ call_log'[Len(call_log')].ret = "False"
                  /\ ~call_log'[Len(call_log')].established
                  /\ connect_log' = connect_log
                  /\ UNCHANGED storeVars
                  /\ pc' = (IF dev_idx < Len(discovered_devices)
                            THEN "step3" ELSE "step4")
                  /\ dev_idx' = dev_idx + 1 ]_vars

\* the 45 polls for the first of two listed devices showed no group (the last
\* status command failed) and the loop is at the second device
C19_Witness ==
    /\ Android
    /\ pc = "step3"
    /\ dev_idx = 2
    /\ last_cmd = [cmd |-> "status", out |-> "error"]
    /\ call_log[1].ret = "False"
    /\ ~call_log[1].established
    /\ elapsed = FindTimeout + DiscoveryWait + PollLimit * PollInterval

\* C20 as stated: a failing external command ends only its own sub-attempt, the
\* next one is still tried: after a failed group-formation request the third
\* secondary method runs, after a failed peer-list query the secondary methods.
C20_CommandFailureLocal ==
    /\ last_cmd = [cmd |-> "p2p_group_add", out |-> "error"] => pc = "method3"
    /\ last_cmd = [cmd |-> "p2p_peers", out |-> "error"] => pc \in {"step4", "wd_method1"}

\* the addresses a connect request was issued for
requested == {connect_log[i] : i \in 1..Len(connect_log)}

\* the addresses of the peers a p2p_peers output lists
listed(stdout) ==
    LET devices == parse_android_devices(stdout)
    IN  {devices[i]["address"] : i \in 1..Len(devices)}

\* C21 as stated: a secondary method is entered only when every discovered
\* peer has had its connect request and none of the attempts succeeded.
C21_SecondaryAfterAllPeers ==
    [][ /\ (Android /\ pc # "step4" /\ pc' = "step4")
          => /\ Len(connect_log') = Len(discovered_devices')
             /\ \A i \in 1..Len(call_log') : call_log'[i].ret = "False"
        /\ (pc = "wd_connect" /\ pc' = "wd_method1")
          => /\ listed(last_output) \subseteq requested'
             /\ \A i \in 1..Len(call_log') : call_log'[i].ret = "False" ]_vars

\* C22 as stated: once the deadline has passed no secondary method is started:
\* the session is never about to run Method 2 or Method 3 past timeout_seconds.
C22_NoSecondaryMethodPastDeadline ==
    (Android /\ pc \in {"method2", "method3"}) => ~timeout_reached(elapsed)

\* the dispatch loop hands an add notification without the device interface to
\* on_device_connected
malformed_add_dispatched ==
    /\ pc = "idle"
    /\ queue # <<>>
    /\ Head(queue).kind = "InterfacesAdded"
    /\ ~Head(queue).device
    /\ queue' = Tail(queue)

\* C23: an add notification whose interfaces lack org.bluez.Device1 is
\* dropped by on_device_connected: the handler returns to the dispatch loop, no
\* session is started, no command runs, and the connected-device set, the
\* saved record and the received flag are as before.
C23_MalformedAddIgnored ==
    [][ malformed_add_dispatched
          => /\ pc' = "idle"
             /\ UNCHANGED <<connected_devices, sessionVars, storeVars, gattVars>> ]_vars

\* the only notification handled so far was the add of the adapter object: no
\* session has started and no device is remembered
C23_Witness ==
    /\ handled = [kind |-> "InterfacesAdded", path |-> "/hci0", device |-> FALSE]
    /\ pc = "idle"
    /\ emitted = 1
    /\ sessions_started = 0
    /\ connected_devices = {}
    /\ last_cmd = NoCommand

\* C24: whatever fails inside a session of AndroidWiFiDirectSharer or
\* WiFiDirectSharer (a command that exits non-zero or times out, an
\* unexpected text, a failed verification), the session is either at a later
\* position or its entry point has returned True or False and the handler is
\* back at the dispatch loop; a failing command that ends the session makes it
\* return False. No other outcome exists.
C24_ErrorAbsorption ==
    ~Gatt =>
      /\ session_result \in {"none", "running", "True", "False"}
      /\ session_result = "none" <=> sessions_started = 0
      /\ (pc = "idle" /\ sessions_started > 0) => session_result \in {"True", "False"}
      /\ pc # "idle" => session_result = "running"
      /\ (pc = "idle" /\ last_cmd.out = "error") => session_result = "False"

\* the peer-list query of AndroidWiFiDirectSharer raised CalledProcessError:
\* the session returned False and the loop is idle again
C24_Witness ==
    /\ Android
    /\ pc = "idle"
    /\ last_cmd = [cmd |-> "p2p_peers", out |-> "error"]
    /\ session_result = "False"

\* C25: the sessions are serialized by the dispatch loop. The handler that
\* opened a session runs it to its end before any other notification is
\* handled, so while a session is at one of its steps (discovery, connect,
\* apply, ...) the notification handled last is the add that opened this very
\* session: no second session and no other handler has been entered, and an
\* add for a second peer waits in the queue.
C25_RadioMutualExclusion ==
    ~Gatt =>
      /\ pc # "idle"
           => /\ handled = [kind |-> "InterfacesAdded", path |-> session_path,
                            device |-> TRUE]
              /\ session_result = "running"
              /\ sessions_started >= 1
      /\ sessions_started = 0 => last_cmd = NoCommand

\* the session opened by /dev_1 is polling while the add notification of
\* /dev_2 waits in the queue
C25_Witness ==
    /\ Android
    /\ pc = "poll"
    /\ session_path = "/dev_1"
    /\ sessions_started = 1
    /\ queue = << [kind |-> "InterfacesAdded", path |-> "/dev_2", device |-> TRUE] >>

\* C26: in AndroidWiFiDirectSharer, when the status text gives ssid=S and psk=P
\* that the extraction accepts and the write succeeds, the saved record is
\* exactly (S, P) and it is written before the network connector is called;
\* the connector is called with that S and P; and when iwconfig then shows the
\* interface associated to S, the session has returned True with the record
\* still holding (S, P).
C26_EndToEndDataFlow ==
    Android =>
      /\ Len(apply_log) <= persist_count
      /\ pc = "apply"
           => /\ last_cmd = [cmd |-> "write_config", out |-> "ok"]
              /\ Len(apply_log) = persist_count - 1
              /\ config_file.written
              /\ config_file.ssid = parse_network_info(status_text)[<<"ssid">>]
              /\ config_file.password = parse_network_info(status_text)[<<"psk">>]
              /\ cand = config_file
              /\ credentials_received
      /\ last_cmd.cmd \in {"client_setup", "iwconfig"}
           => /\ Len(apply_log) = persist_count
              /\ applied = config_file
      /\ ( /\ last_cmd = [cmd |-> "iwconfig", out |-> "ok"]
           /\ last_output.associated
           /\ last_output.essid = applied.ssid )
           => /\ pc = "idle"
              /\ session_result = "True"
              /\ call_log[Len(call_log)].ret = "True"

\* ssid=HomeNet / psk=s3cr3t was read, saved and applied, iwconfig showed
\* HomeNet, and the session returned True
C26_Witness ==
    /\ Android
    /\ pc = "idle"
    /\ session_result = "True"
    /\ last_cmd = [cmd |-> "iwconfig", out |-> "ok"]
    /\ last_output.essid = <<"HomeNet">>
    /\ config_file = Credentials(<<"HomeNet">>, <<"s3cr3t">>)
    /\ apply_log = << config_file >>
    /\ persist_count = 1

\* the credentials the write of this step was called with
persisted_now ==
    IF Gatt THEN apply_log'[Len(apply_log')]
    ELSE LET info == parse_network_info(status_text')
         IN  Credentials(ssid_of(info), password_of(info))

\* C27: every successful write of the record leaves it equal to the
\* credentials of that write alone, whatever it held before (a record saved
\* earlier in the session is replaced), and a write of the credentials the
\* record already holds leaves it as it was.
C27_PersistOverwrites ==
    [][ persist_count' = persist_count + 1
          => /\ config_file' = persisted_now
             /\ config_file = persisted_now => config_file' = config_file ]_vars

\* the record saved for the first peer was replaced by the different
\* credentials read from the second peer
C27_Witness ==
    /\ Android
    /\ persist_count = 2
    /\ pc = "apply"
    /\ apply_log[1] # config_file
    /\ config_file = Credentials(<<"HomeNet">>, <<"s3cr3t">>)

\* a parser was called in this step
parser_called == last_call' \in {"status", "peers"}

session_step ==
    \/ step1_discover
    \/ step2_list_peers
    \/ step3_connect
    \/ poll_connection
    \/ extract_credentials_from_android_wifi_direct
    \/ connect_to_extracted_network
    \/ step4_service_discovery
    \/ method2_group_formation
    \/ method3_direct_extraction
    \/ wd_step1_discover
    \/ wd_step2_list_peers
    \/ wd_connect_via_wifi_direct
    \/ wd_extract_credentials_from_wifi_direct
    \/ wd_method1_network_request
    \/ wd_method2_service_discovery
    \/ wd_method3_direct_extraction
    \/ wd_bluetooth_only

every_command_returns == WF_vars(session_step)

\* the run of one session: the program starts, a device connects, the
\* handler starts the session for it
InitLive ==
    /\ program \in {"AndroidWiFiDirectSharer", "WiFiDirectSharer"}
    /\ InitSharer
    /\ InitParse

ConnectEvents == {n \in Notifications : n.kind = "InterfacesAdded" /\ n.device}

connect_event == \E n \in ConnectEvents : emitted = 0 /\ dbus_signal(n)

NextLive ==
    \/ connect_event
    \/ on_device_connected
    \/ session_step

SpecLive == InitLive /\ [][NextLive]_vars /\ every_command_returns

\* C30: when every external command returns, a session that a connect event
\* started in one of the two Wi-Fi Direct programs ends: the entry point
\* returns True or False and the program is back in its dispatch loop.
C30_SessionTermination ==
    (~Gatt /\ session_result = "running") ~>
        (pc = "idle" /\ session_result \in {"True", "False"})

\* an exhausted session: two peers were listed, each was asked for a
\* connection once, the secondary methods ran, and the session returned False
C30_Witness ==
    /\ program = "AndroidWiFiDirectSharer"
    /\ pc = "idle"
    /\ session_result = "False"
    /\ Len(discovered_devices) = 2
    /\ Len(connect_log) = 2
    /\ last_cmd.cmd = "list_networks"

(***************************************************************************)
(* Progress of AutoBluetoothWiFiSharer. The main loop hands every queued   *)
(* message to its handler once the running handler has returned, and a     *)
(* handler that is in its polling loop makes its next turn.                *)
(***************************************************************************)
InitMonitor ==
    /\ Gatt
    /\ InitSharer
    /\ InitParse

dispatch ==
    \/ on_device_connected
    \/ on_device_disconnected
    \/ on_characteristic_changed

NextMonitor ==
    \/ \E n \in Notifications : dbus_signal(n)
    \/ \E n \in CharacteristicNotifications : PropertiesChanged(n)
    \/ WiFiSSIDCharacteristic_WriteValue
    \/ WiFiPasswordCharacteristic_WriteValue
    \/ dispatch
    \/ monitor_credentials

main_loop_runs == WF_vars(dispatch) /\ WF_vars(monitor_credentials)

SpecMonitor == InitMonitor /\ [][NextMonitor]_vars /\ main_loop_runs

\* the radio stack has sent the remove notification of the device the
\* session was started for
peer_disconnected ==
    \E i \in 1..Len(queue) :
        queue[i].kind = "InterfacesRemoved" /\ queue[i].path = session_path

\* C31: once the peer of a running monitoring loop has disconnected, the loop
\* ends: the remove notification reaches the loop although the loop runs
\* inside the connect handler.
C31_MonitoringLoopExits ==
    (Gatt /\ pc = "monitor" /\ peer_disconnected) ~> (pc # "monitor")

\* the calls of extract_wifi_credentials_via_bluetooth_only in the session
bluetooth_only_calls ==
    {k \in 1..Len(call_log) : call_log[k].name = "bluetooth_only"}

\* a Wi-Fi Direct method of the session returned True
p2p_succeeded ==
    \E k \in 1..Len(call_log) :
        call_log[k].name # "bluetooth_only" /\ call_log[k].ret = "True"

\* C32: in WiFiDirectSharer the Bluetooth-only method is not called while a
\* Wi-Fi Direct strategy of the session is still to run; a session that ended
\* after one of them returned True never called it, and every other session
\* that ended called it exactly once, as its last call.
C32_LastResortStrategy ==
    program = "WiFiDirectSharer" =>
        /\ pc # "idle" => bluetooth_only_calls = {} /\ ~p2p_succeeded
        /\ (pc = "idle" /\ sessions_started >= 1) =>
             IF p2p_succeeded
             THEN bluetooth_only_calls = {} /\ session_result = "True"
             ELSE bluetooth_only_calls = {Len(call_log)}

\* a session whose connect attempt and alternative methods failed and that
\* ended with the Bluetooth-only method
C32_Witness ==
    /\ program = "WiFiDirectSharer"
    /\ pc = "idle"
    /\ Len(call_log) = 3
    /\ call_log[1].name = "connect"
    /\ call_log[2].name = "alternative"
    /\ call_log[3].name = "bluetooth_only"
    /\ session_result = "False"

\* the main loop hands the notification at the head of the queue to its handler
notification_dispatched == queue # <<>> /\ queue' = Tail(queue)

\* C33: the connected-device set is empty before the first notification is
\* handled, it changes only when a notification is handled, an add
\* notification with the device interface puts its path in, a remove
\* notification takes its path out, and a remove notification for a path that
\* is not in the set leaves the set and the session state as they are.
C33_ConnectedDeviceSet ==
    [][ /\ handled = NoNotification => connected_devices = {}
        /\ IF notification_dispatched
           THEN LET n == Head(queue)
                IN  /\ (n.kind = "InterfacesAdded" /\ n.device) =>
                          connected_devices' = connected_devices \cup {n.path}
                    /\ (n.kind = "InterfacesAdded" /\ ~n.device) =>
                          connected_devices' = connected_devices
                    /\ n.kind = "InterfacesRemoved" =>
                          connected_devices' = connected_devices \ {n.path}
                    /\ (n.kind = "InterfacesRemoved" /\ n.path \notin connected_devices) =>
                          UNCHANGED <<connected_devices, sessionVars, storeVars>>
                    /\ n.kind = "PropertiesChanged" =>
                          connected_devices' = connected_devices
           ELSE connected_devices' = connected_devices
      ]_vars

\* /dev_2 connected and its session ended, then the remove notification of
\* /dev_1, which never connected, was handled
C33_Witness ==
    /\ pc = "idle"
    /\ handled = [kind |-> "InterfacesRemoved", path |-> "/dev_1", device |-> FALSE]
    /\ connected_devices = {"/dev_2"}
    /\ sessions_started = 1

\* C34: in AutoBluetoothWiFiSharer a credential the client wrote is handed to
\* connect_to_wifi at most once: no credential is applied a second time by a
\* later characteristic notification or turn of the monitoring loop.
C34_SingleApply ==
    Gatt => \A i, j \in 1..Len(apply_log) : apply_log[i] = apply_log[j] => i = j

\* a value a client wrote that is neither empty nor "Unknown"
written_value(v) == v # <<>> /\ v # <<"Unknown">>

\* C35: in AutoBluetoothWiFiSharer a step sets the received-credential flag or
\* calls connect_to_wifi only when both characteristics hold a non-empty value
\* other than "Unknown" at that moment, and what it applies is that pair.
C35_BothFieldsRequired ==
    [][ (Gatt /\ (credentials_received' # credentials_received
                  \/ Len(apply_log') > Len(apply_log))) =>
            /\ written_value(wifi_service.wifi_ssid)
            /\ written_value(wifi_service.wifi_password)
            /\ credentials_received'
            /\ apply_log' = Append(apply_log,
                                   Credentials(wifi_service.wifi_ssid,
                                               wifi_service.wifi_password))
      ]_vars

\* the client wrote both values, the notification of the write was handled
\* and the pair was applied, with no device connected
C35_Witness ==
    /\ Gatt
    /\ sessions_started = 0
    /\ credentials_received
    /\ handled.kind = "PropertiesChanged"
    /\ wifi_service = [wifi_ssid |-> <<"HomeNet">>, wifi_password |-> <<"HomeNet">>]
    /\ Len(apply_log) = 1

\* on_device_connected has just called monitor_credentials for a new device
session_starts == pc = "monitor" /\ poll_i = 0

\* C36: in AutoBluetoothWiFiSharer each session starts with no credential
\* received: when the handler of a connect event enters the monitoring loop the
\* received-credential flag is false, whatever happened before the device
\* connected.
C36_FreshSessionState ==
    (Gatt /\ session_starts) => ~credentials_received

\* the record holds a network name and a passphrase, neither of them "Unknown"
record_is_valid(record) ==
    /\ record.written
    /\ record.ssid # <<"Unknown">>
    /\ record.password # <<"Unknown">>

\* C37: in the two Wi-Fi Direct programs every step leaves the
\* received-credential flag set only together with a written record whose
\* network name and passphrase both differ from "Unknown", and no step resets
\* the flag.
C37_ReceivedFlag ==
    [][ ~Gatt =>
          /\ credentials_received' => record_is_valid(config_file')
          /\ credentials_received => credentials_received'
      ]_vars

\* the flag an earlier session set is still set while the session of the next
\* device runs
C37_Witness ==
    /\ program = "AndroidWiFiDirectSharer"
    /\ credentials_received
    /\ config_file = Credentials(<<"HomeNet">>, <<"s3cr3t">>)
    /\ sessions_started = 2
    /\ pc = "step2"

(***************************************************************************)
(* run() and main(): the setup steps, the main loop, what run() returns    *)
(* and the exit status main() makes of it.                                 *)
(***************************************************************************)
\* the setup steps whose failure makes run() return False; "no_adapter" is
\* setup_dbus finding no org.bluez.Adapter1 object. WiFiDirectSharer goes on
\* when setup_wifi_direct fails.
SetupSteps ==
    {"check_dependencies", "setup_bluetooth", "setup_dbus", "no_adapter",
     "setup_bluetooth_monitoring"}
    \cup (IF program = "AndroidWiFiDirectSharer" THEN {"setup_wifi_direct"} ELSE {})
    \cup (IF program = "AutoBluetoothWiFiSharer" THEN {"setup_gatt_services"} ELSE {})

runFrame == <<program, monitorVars, storeVars, gattVars, parseVars, elapsed,
              discovered_devices, dev_idx, poll_i, cand, session_path, session_result,
              call_log, connect_log, persist_count, apply_log, status_text,
              disc_during, sessions_started, last_cmd, last_output>>

\* a run() that starts the main loop whatever its setup steps returned
start_anyway(failed) == "idle"

\* where run() goes after its setup steps: into self.mainloop.run(), or out
\* with return False when a step failed
after_setup(failed) == IF failed = "none" THEN "idle" ELSE "returned"

\* the setup steps of run(), up to self.mainloop.run() or to return False
run_setup ==
    /\ pc = "setup"
    /\ \E failed \in SetupSteps \cup {"none"} :
         /\ setup_state' = IF failed = "none" THEN "complete" ELSE failed
         /\ pc' = after_setup(failed)
         /\ run_result' = IF failed = "none" THEN "running" ELSE "False"
    /\ UNCHANGED runFrame

\* self.mainloop.run() returns after mainloop.quit(); run() has no statement
\* after it and returns None
mainloop_returns ==
    /\ pc = "quit"
    /\ pc' = "returned"
    /\ run_result' = "None"
    /\ UNCHANGED <<runFrame, setup_state>>

\* except KeyboardInterrupt: return True, while the main loop waits
keyboard_interrupt ==
    /\ pc = "idle"
    /\ pc' = "returned"
    /\ run_result' = "True"
    /\ UNCHANGED <<runFrame, setup_state>>

\* main(): if success: sys.exit(0) else: sys.exit(1)
exit_status(success) == IF success = "True" THEN 0 ELSE 1

InitRun ==
    /\ program \in Programs
    /\ sharer_at("setup", "pending")
    /\ InitParse

NextRun ==
    \/ run_setup
    \/ mainloop_returns
    \/ keyboard_interrupt
    \/ Next

SpecRun == InitRun /\ [][NextRun]_vars

\* C38: when the main loop was stopped because a credential was received,
\* applied and verified, run() has returned a true value and the exit status
\* is 0; and the exit status is 1 only when a setup step or the acquisition
\* failed.
C38_ProcessOutcome ==
    /\ (Gatt /\ pc = "returned" /\ session_result = "True") =>
          run_result = "True" /\ exit_status(run_result) = 0
    /\ (Gatt /\ pc = "returned" /\ exit_status(run_result) = 1) =>
          setup_state # "complete" \/ session_result # "True"

\* C39: when setup_dbus finds no adapter or fails, or the signal receivers
\* cannot be registered, run() has returned False, main() exits with status 1,
\* the main loop never ran (no notification was ever handed to a handler) and
\* no session was opened.
C39_SetupErrorsPropagate ==
    setup_state \in {"no_adapter", "setup_dbus", "setup_bluetooth_monitoring"} =>
        /\ pc = "returned"
        /\ run_result = "False"
        /\ exit_status(run_result) = 1
        /\ handled = NoNotification
        /\ sessions_started = 0
        /\ session_result = "none"
        /\ connected_devices = {}

\* no adapter was found; the radio stack sent a connect notification all the
\* same, which stays undelivered
C39_Witness ==
    /\ program = "AndroidWiFiDirectSharer"
    /\ setup_state = "no_adapter"
    /\ run_result = "False"
    /\ queue = << [kind |-> "InterfacesAdded", path |-> "/dev_1", device |-> TRUE] >>

====
